---- MODULE Spec2Model ----
(***************************************************************************)
(* Terminal lifecycle and event multiplexing of the aoc2023 TUI.           *)
(*                                                                         *)
(* Two variants of the program are modelled, chosen in Init:               *)
(*   "tui"   : src/src/tui.rs, the Tui session with its tokio Poller task, *)
(*   "event" : src/src/event.rs, the thread-based event_poller.            *)
(*                                                                         *)
(* The main thread runs the Tui methods.  stop() is a loop of 1 ms sleeps, *)
(* modelled one iteration per step so that the Poller tasks interleave     *)
(* with it.  The terminal commands of enter() and exit() run on the main   *)
(* thread only, so each call's commands are one step, with the command     *)
(* that fails (if any) chosen by the environment.                          *)
(***************************************************************************)
EXTENDS Integers, Sequences, FiniteSets, TLC

\* ---------------------------------------------------------------- bounds
\* Poller tasks that start() has replaced and that have not finished yet
MaxOld == 1
\* Events queued on the Channel and not yet received
MaxChan == 1
\* take_event_rx() calls of one session
MaxTakes == 2
\* the first MaxInputKinds kinds of InputKinds are offered by the input stream
MaxInputKinds == 8
\* event_poller: tick_rate, in time units
TickRate == 2
\* event_poller: the longest a poll oversleeps, in time units
Jitter == 1

\* the Poller's clock: the longest a due interval waits to be served, in
\* time units
MaxLag == 1
\* the Poller's clock: the latest time the observed window opens
MaxOpen == 15
\* model.rs: the counters update() is applied to are -MaxCounter..MaxCounter
MaxCounter == 52
\* model.rs: the widths and heights Resize carries are 0..MaxSize
MaxSize == 1
\* fps_counter.rs: the frame counts update() is applied to are 0..MaxFrames
MaxFrames == 1
\* app.rs: the action channel holds at most MaxQueue actions
MaxQueue == 3
\* app.rs: at most MaxKeys Key events arrive between two Tick actions
MaxKeys == 2
\* home.rs: at most MaxOps scheduled operations are in progress at a time
MaxOps == 2
\* home.rs: usize has UsizeBits bits
UsizeBits == 3

\* ------------------------------------------------------ program constants
\* Tui::new(): `let tick_rate = 4.0;`
TuiTickRate == 4
\* Tui::new(): `let frame_rate = 60.0;`
TuiFrameRate == 60
\* model::update: `if model.counter > 50`, `if model.counter < -50`
ResetAbove == 50
\* stop(): `if counter > 50 { self.task.abort(); }`
AbortThreshold == 50
\* stop(): `if counter > 100 { ...; break; }`
GiveUpThreshold == 100

VARIABLES
    variant,    \* "tui" or "event": which program variant runs
    term,       \* terminal mode flags [raw, alt, cursorHidden, mouseCap, pasteCap]
    mouse,      \* Tui.mouse
    paste,      \* Tui.paste
    task,       \* Tui.task with Tui.cancellation_token: [kind, st, cancelled]
    old,        \* the Pollers start() has replaced, still running (all with
                \* a cancelled token): how many are in each state
    chan,       \* the Channel: queued events [t, kind, src], src the sender:
                \* "cur" (Tui.task, or event_poller) or "old"
    rx,         \* where the consumer end is: "tui", "consumer", "dropped"
    takes,      \* number of take_event_rx() calls made
    takeRet,    \* what the last take_event_rx() returned: "-", "Some", "None"
    handedOut,  \* number of take_event_rx() calls that returned Some
    pc,         \* main thread: "idle", "stopping", "stopped", "suspended",
                \* "unwinding" (panic hook done), "aborted", "dropped"
    counter,    \* stop()'s local counter
    call,       \* the lifecycle call running or last returned: [name, res]
    ops,        \* terminal commands attempted by `call`, in order
    pre,        \* term when `call` was made
    prevFail,   \* <<t>> when the lifecycle call before `call` was an enter()
                \* that failed, t being term when it was made; else <<>>
    epc,        \* event_poller position: "poll", "tick"
    elapsed,    \* event_poller: last_tick.elapsed(), in time units
    lastItem,   \* the input item a poller read last
    sources,    \* the readiness sources of the session's Poller: due, those
                \* that are ready and wait to be served, and last, the one
                \* served last when due ("-" once it is due again)
    clock,      \* the time of the session's Poller, where it is tracked:
                \* now, the deadlines of its intervals, what it has sent
    model,      \* model.rs: the Model, and what update() returned last
    app,        \* App::run: where it is, the action channel, the fields of
                \* App, the calls on the Tui of its last turn, its result
    comps,      \* App.components: Home and FpsCounter
    sched       \* the tasks Home has spawned for scheduled operations

\* App::run with its components and the tasks Home has spawned
appVars == <<app, comps, sched>>

vars == <<variant, term, mouse, paste, task, old, chan, rx, takes, takeRet,
          handedOut, pc, counter, call, ops, pre, prevFail, epc, elapsed,
          lastItem, sources, clock, model, app, comps, sched>>

\* ------------------------------------------------------------- terminal
TermOff ==
    [raw |-> FALSE, alt |-> FALSE, cursorHidden |-> FALSE,
     mouseCap |-> FALSE, pasteCap |-> FALSE]

\* One crossterm command applied to the terminal.
Apply(cmd, t) ==
    CASE cmd = "enableRaw"    -> [t EXCEPT !.raw = TRUE]
      [] cmd = "enterAlt"     -> [t EXCEPT !.alt = TRUE]
      [] cmd = "hideCursor"   -> [t EXCEPT !.cursorHidden = TRUE]
      [] cmd = "enableMouse"  -> [t EXCEPT !.mouseCap = TRUE]
      [] cmd = "enablePaste"  -> [t EXCEPT !.pasteCap = TRUE]
      [] cmd = "flush"        -> t
      [] cmd = "disablePaste" -> [t EXCEPT !.pasteCap = FALSE]
      [] cmd = "disableMouse" -> [t EXCEPT !.mouseCap = FALSE]
      [] cmd = "leaveAlt"     -> [t EXCEPT !.alt = FALSE]
      [] cmd = "showCursor"   -> [t EXCEPT !.cursorHidden = FALSE]
      [] cmd = "disableRaw"   -> [t EXCEPT !.raw = FALSE]

\* The commands of a `?`-chained sequence run in order; the one at failAt
\* (0: none) fails, changes nothing, and ends the sequence.
RECURSIVE RunCmds(_, _, _)
RunCmds(cmds, t, failAt) ==
    IF cmds = <<>> \/ failAt = 1 THEN t
    ELSE RunCmds(Tail(cmds), Apply(Head(cmds), t),
                 IF failAt = 0 THEN 0 ELSE failAt - 1)

Attempted(cmds, failAt) ==
    IF failAt = 0 THEN cmds ELSE SubSeq(cmds, 1, failAt)

\* enter() that does not switch to the alternate screen.
EnterCmdsNoAlt(m, p) ==
    <<"enableRaw", "hideCursor">>
        \o (IF m THEN <<"enableMouse">> ELSE <<>>)
        \o (IF p THEN <<"enablePaste">> ELSE <<>>)

\* enter() that enables mouse capture whatever the mouse option is.
EnterCmdsAlwaysMouse(m, p) ==
    <<"enableRaw", "enterAlt", "hideCursor", "enableMouse">>
        \o (IF p THEN <<"enablePaste">> ELSE <<>>)

\* enter(): the terminal commands before start().
EnterCmds(m, p) ==
    <<"enableRaw", "enterAlt", "hideCursor">>
        \o (IF m THEN <<"enableMouse">> ELSE <<>>)
        \o (IF p THEN <<"enablePaste">> ELSE <<>>)

\* exit() that forgets to disable mouse capture.
ExitCmdsKeepMouse(m, p) ==
    <<"flush">>
        \o (IF p THEN <<"disablePaste">> ELSE <<>>)
        \o <<"leaveAlt", "showCursor", "disableRaw">>

\* exit() that disables raw mode first.
ExitCmdsRawFirst(m, p) ==
    <<"disableRaw", "flush">>
        \o (IF p THEN <<"disablePaste">> ELSE <<>>)
        \o (IF m THEN <<"disableMouse">> ELSE <<>>)
        \o <<"leaveAlt", "showCursor">>

\* exit(): the terminal commands inside `if is_raw_mode_enabled()?`.
ExitCmds(m, p) ==
    <<"flush">>
        \o (IF p THEN <<"disablePaste">> ELSE <<>>)
        \o (IF m THEN <<"disableMouse">> ELSE <<>>)
        \o <<"leaveAlt", "showCursor", "disableRaw">>

\* exit() that restores without asking whether raw mode is on.
ExitOpsUnchecked(t, m, p) == ExitCmds(m, p)

\* exit() that asks for the alternate screen instead of raw mode.
ExitOpsIfAlt(t, m, p) == IF t.alt THEN ExitCmds(m, p) ELSE <<>>

\* exit() after stop(): what it runs given the terminal it finds.
ExitOps(t, m, p) == IF t.raw THEN ExitCmds(m, p) ELSE <<>>

\* ---------------------------------------------------------------- events
Ev(t, k, s) == [t |-> t, kind |-> k, src |-> s]

\* What crossterm's input stream can yield: Some(Ok(evt)) of each kind,
\* Some(Err(_)) and None.
InputKinds ==
    << [t |-> "Key", kind |-> "Press"],
       [t |-> "Key", kind |-> "Release"],
       [t |-> "Err", kind |-> "-"],
       [t |-> "None", kind |-> "-"],
       [t |-> "Mouse", kind |-> "-"],
       [t |-> "FocusLost", kind |-> "-"],
       [t |-> "Key", kind |-> "Repeat"],
       [t |-> "Resize", kind |-> "-"],
       [t |-> "FocusGained", kind |-> "-"],
       [t |-> "Paste", kind |-> "-"] >>

NoItem == [t |-> "-", kind |-> "-"]

Min(a, b) == IF a < b THEN a ELSE b

Inputs == {InputKinds[i] : i \in 1..Min(MaxInputKinds, Len(InputKinds))}

\* A Poller that forwards key events of every kind.
TuiTranslateAnyKind(item, s) ==
    CASE item.t = "Err"  -> <<Ev("Error", "-", s)>>
      [] item.t = "None" -> <<>>
      [] item.t = "Key"  -> <<Ev("Key", item.kind, s)>>
      [] OTHER -> <<Ev(item.t, "-", s)>>

\* A Poller that sends Init again when the input stream yields None.
TuiTranslateInitOnNone(item, s) ==
    CASE item.t = "Err"  -> <<Ev("Error", "-", s)>>
      [] item.t = "None" -> <<Ev("Init", "-", s)>>
      [] item.t = "Key"  ->
            IF item.kind = "Press" THEN <<Ev("Key", item.kind, s)>> ELSE <<>>
      [] OTHER -> <<Ev(item.t, "-", s)>>

\* A Poller that ignores mouse events.
TuiTranslateDropMouse(item, s) ==
    CASE item.t = "Err"  -> <<Ev("Error", "-", s)>>
      [] item.t = "None" -> <<>>
      [] item.t = "Mouse" -> <<>>
      [] item.t = "Key"  ->
            IF item.kind = "Press" THEN <<Ev("Key", item.kind, s)>> ELSE <<>>
      [] OTHER -> <<Ev(item.t, "-", s)>>

\* A Poller that ignores read errors.
TuiTranslateErrSilent(item, s) ==
    CASE item.t = "Err"  -> <<>>
      [] item.t = "None" -> <<>>
      [] item.t = "Key"  ->
            IF item.kind = "Press" THEN <<Ev("Key", item.kind, s)>> ELSE <<>>
      [] OTHER -> <<Ev(item.t, "-", s)>>

\* The Poller's match on the input item: the events it sends (none or one).
TuiTranslate(item, s) ==
    CASE item.t = "Err"  -> <<Ev("Error", "-", s)>>
      [] item.t = "None" -> <<>>
      [] item.t = "Key"  ->
            IF item.kind = "Press" THEN <<Ev("Key", item.kind, s)>> ELSE <<>>
      [] OTHER -> <<Ev(item.t, "-", s)>>

\* event_poller's match on the item read (poll and read errors panic).
EventPollerTranslate(item, s) ==
    CASE item.t = "Key" ->
            IF item.kind = "Press" THEN <<Ev("Key", item.kind, s)>> ELSE <<>>
      [] item.t = "Mouse"  -> <<Ev("Mouse", "-", s)>>
      [] item.t = "Resize" -> <<Ev("Resize", "-", s)>>
      [] OTHER -> <<>>

\* ----------------------------------------------------------------- tasks
\* A task is "spawned" (not polled yet), in its "loop" (waiting in select!),
\* "aborting" (abort() called, the task not dropped yet), "finished" or
\* "panicked".
EmptyTask  == [kind |-> "empty",  st |-> "spawned", cancelled |-> FALSE]
\* A Poller spawned with the token that start() has just cancelled.
PollerTaskOldToken ==
    [kind |-> "poller", st |-> "spawned", cancelled |-> TRUE]
\* start(): the Poller it spawns, with the token it has just made.
PollerTask == [kind |-> "poller", st |-> "spawned", cancelled |-> FALSE]

\* is_finished() is false.
Running(t) == t.st \in {"spawned", "loop", "aborting"}

OldStates == {"spawned", "loop", "aborting"}
NoOld == [st \in OldStates |-> 0]
OldCount(o) == o["spawned"] + o["loop"] + o["aborting"]

\* cancel(): cancels the token the session holds now.
CancelCur(t) == [t EXCEPT !.cancelled = TRUE]

\* start() overwrites self.task: the JoinHandle of the previous task is
\* dropped, which detaches the task; a Poller that has not finished runs on
\* with its cancelled token.
Detach(o, t) ==
    IF t.kind = "poller" /\ Running(t) THEN [o EXCEPT ![t.st] = @ + 1] ELSE o

\* A start() that makes a new Channel, losing the events queued on the old.
DisownCleared(q) == <<>>

\* The events queued by the task start() replaces are those of an old task.
Disown(q) == [k \in 1..Len(q) |-> [q[k] EXCEPT !.src = "old"]]

\* The Poller tasks that have not finished.
PollersRunning ==
    OldCount(old) + (IF task.kind = "poller" /\ Running(task) THEN 1 ELSE 0)

\* The queue is unbounded in the program and capped at MaxChan here.
CanSend(evs) == Len(chan) + Len(evs) <= MaxChan

\* ------------------------------------------------- readiness sources
\* What the select! of the Poller waits for, besides cancellation: the input
\* stream, the tick interval and the render interval.
Sources == {"input", "tick", "render"}

NoSources == [due |-> {}, last |-> "-"]

\* A select! with `biased;` polls its branches in the order written: a
\* ready input keeps the timers from being picked, a due tick the render.
BlockersBiased(s) ==
    CASE s = "input"  -> {}
      [] s = "tick"   -> {"input"}
      [] s = "render" -> {"input", "tick"}

\* The sources whose readiness keeps select! from picking the branch of s:
\* none, as select! polls its branches in random order.
Blockers(s) == {}

\* Branch s of task w may be picked.  The replaced Pollers have timers of
\* their own, which are not tracked.
MayPick(s, w, src) == w = "cur" => Blockers(s) \cap src.due = {}

\* Task w runs the branch of source s; `more` says whether the source is
\* ready again at once (further input items are pending).  The input stream
\* is shared by all Pollers.
Serve(s, w, more, src) ==
    IF (w = "cur" \/ s = "input") /\ s \in src.due
      THEN [due |-> IF more THEN src.due ELSE src.due \ {s}, last |-> s]
      ELSE src

\* start() makes a new reader and new intervals: what was due on the timers
\* of the replaced Poller is gone, pending input stays pending.
Restart(src) == [src EXCEPT !.due = @ \cap {"input"}]

\* ------------------------------------------------- the Poller's clock
\* Time is counted in units of 1/60 s, of which the two periods of start(),
\* from_secs_f64(1.0 / tick_rate) and from_secs_f64(1.0 / frame_rate), are
\* multiples.
Second == 60

\* The tick interval built from render_delay.
PeriodOfRender(s) == Second \div TuiFrameRate

\* The tick period taken to be tick_rate seconds.
PeriodAsRate(s) == IF s = "tick" THEN Second * TuiTickRate
                                 ELSE Second \div TuiFrameRate

\* `tick_delay` and `render_delay`, the periods of the two intervals.
Period(s) == IF s = "tick" THEN Second \div TuiTickRate
                           ELSE Second \div TuiFrameRate

\* Time stops there: the latest window of two seconds has passed.
Horizon == MaxOpen + 2 * Second

\* The clock where time is not tracked, and where it is.  due: the next
\* deadline of each interval; n: the events the session's Poller has sent,
\* by type; items: it has read an input item; win, base: the time the
\* observed window opened (-1 before) and n.tick at that time.
ClockOff ==
    [on |-> FALSE, now |-> 0, due |-> [tick |-> 0, render |-> 0],
     n |-> [init |-> 0, tick |-> 0, render |-> 0, input |-> 0],
     items |-> FALSE, win |-> 0 - 1, base |-> 0]

ClockOn == [ClockOff EXCEPT !.on = TRUE]

Timed(w, c) == c.on /\ w = "cur"

\* tokio::time::interval(period): the first tick completes at once.
Started(w, c) ==
    IF Timed(w, c)
      THEN [c EXCEPT !.due = [tick |-> c.now, render |-> c.now],
                     !.n.init = @ + 1]
      ELSE c

\* interval.tick() is ready once its deadline has passed; a tick() dropped
\* by select! before that consumes nothing.
Due(s, w, c) == Timed(w, c) => c.due[s] <= c.now

\* A tick() that completes moves the deadline of its interval one period
\* on from the deadline, not from now (MissedTickBehavior::Burst, the
\* default), and leaves the other interval alone.
NextDue(s, c) == [c.due EXCEPT ![s] = @ + Period(s)]

\* The timer branch of s has run in task w and sent its event.
Fired(s, w, c) ==
    IF Timed(w, c)
      THEN [c EXCEPT !.due = NextDue(s, c), !.n[s] = @ + 1]
      ELSE c

\* The input branch has run in task w and sent evs; what is counted is
\* whether an input event was sent at all.
Read(w, evs, c) ==
    IF Timed(w, c)
      THEN [c EXCEPT !.items = TRUE,
                     !.n.input = IF evs = <<>> THEN @ ELSE 1]
      ELSE c

\* ------------------------------------------------- model.rs: the Model
\* `pub counter: i32`
I32Max == 2147483647
I32Min == 0 - I32Max - 1

\* c + d in i32, |d| = 1, wrapping on overflow as a release build does.
AddI32(c, d) ==
    IF d > 0 /\ c = I32Max THEN I32Min
    ELSE IF d < 0 /\ c = I32Min THEN I32Max
    ELSE c + d

Msg(t) == [t |-> t, w |-> 0, h |-> 0]
None == Msg("None")
NoMsg == Msg("-")

\* enum Message; FpsCounterMessage(Render) and FpsCounterMessage(Tick) are
\* "FpsRender" and "FpsTick".
Messages ==
    {Msg(t) : t \in {"Increment", "Decrement", "Render", "Tick", "Reset",
                     "Quit", "FpsRender", "FpsTick"}}
      \cup {[t |-> "Resize", w |-> w, h |-> h] : w, h \in 0..MaxSize}

\* Model::default(), with the message update() was given last and what it
\* returned.  A frame rate is kept as the name of the count it was computed
\* from, "0.0" before.
DefaultModel ==
    [counter |-> 0,
     running_state |-> "Running",
     tui_size |-> [width |-> 0, height |-> 0],
     fps_counter |-> [app_frames |-> 0, app_fps |-> "0.0",
                      render_frames |-> 0, render_fps |-> "0.0"],
     msg |-> NoMsg,
     ret |-> None]

\* The models update() is applied to first: the default with the counter
\* set, as the tests of model.rs make them.
Models ==
    {[DefaultModel EXCEPT !.counter = c] : c \in (0 - MaxCounter)..MaxCounter}

\* A counter that stops at the ends of -50..=50.
SteppedSaturating(c, d) ==
    IF AddI32(c, d) > ResetAbove THEN ResetAbove
    ELSE IF AddI32(c, d) < 0 - ResetAbove THEN 0 - ResetAbove
    ELSE AddI32(c, d)

\* `model.counter += 1`, `model.counter -= 1`
Stepped(c, d) == AddI32(c, d)

\* An update() that asks for a Reset one step late.
FollowUpLate(t, c) ==
    IF \/ t = "Increment" /\ c > ResetAbove + 1
       \/ t = "Decrement" /\ c < 0 - ResetAbove - 1
      THEN Msg("Reset")
      ELSE None

\* An update() that never asks for a Reset.
FollowUpNever(t, c) == None

\* `if model.counter > 50 { return Some(Message::Reset); }` for Increment,
\* `if model.counter < -50 { return Some(Message::Reset); }` for Decrement.
FollowUp(t, c) ==
    IF \/ t = "Increment" /\ c > ResetAbove
       \/ t = "Decrement" /\ c < 0 - ResetAbove
      THEN Msg("Reset")
      ELSE None

\* fps_counter::update: the count of the message goes up by one; when a
\* second or more has passed since the count was started (`lapsed`), the
\* rate is computed from it and the count starts again.
FpsUpdate(f, t, lapsed) ==
    IF t = "FpsRender"
      THEN IF lapsed
             THEN [f EXCEPT !.app_fps = "app_frames / elapsed",
                            !.app_frames = 0]
             ELSE [f EXCEPT !.app_frames = @ + 1]
      ELSE IF lapsed
             THEN [f EXCEPT !.render_fps = "render_frames / elapsed",
                            !.render_frames = 0]
             ELSE [f EXCEPT !.render_frames = @ + 1]

\* model::update(model, msg): the model afterwards, with what was returned.
Update(m, msg, lapsed) ==
    LET t == msg.t IN
    CASE t = "Increment" ->
           [m EXCEPT !.counter = Stepped(@, 1),
                     !.msg = msg,
                     !.ret = FollowUp(t, Stepped(m.counter, 1))]
      [] t = "Decrement" ->
           [m EXCEPT !.counter = Stepped(@, 0 - 1),
                     !.msg = msg,
                     !.ret = FollowUp(t, Stepped(m.counter, 0 - 1))]
      [] t = "Reset" ->
           [m EXCEPT !.counter = 0, !.msg = msg, !.ret = None]
      [] t = "Quit" ->
           [m EXCEPT !.running_state = "ShouldQuit", !.msg = msg,
                     !.ret = None]
      [] t = "Render" ->
           [m EXCEPT !.msg = msg, !.ret = Msg("FpsRender")]
      [] t = "Tick" ->
           [m EXCEPT !.msg = msg, !.ret = Msg("FpsTick")]
      [] t = "Resize" ->
           [m EXCEPT !.tui_size = [width |-> msg.w, height |-> msg.h],
                     !.msg = msg, !.ret = None]
      [] t \in {"FpsRender", "FpsTick"} ->
           [m EXCEPT !.fps_counter = FpsUpdate(@, t, lapsed),
                     !.msg = msg, !.ret = None]

\* --------------------------------------------------------------- Init
NoCall == [name |-> "new", res |-> "ok"]

\* ----------------------------------------------------------------- app.rs
\* An Action: the number it carries (0 when it carries none), and the
\* scheduled task of Home that sent it (0 when none did).
ActOf(t, i, n) == [t |-> t, i |-> i, by |-> n]

Act(t) == ActOf(t, 0, 0)

\* The keys of the Key events App::run is given.
KeyCodes == {"q", "z", "j", "k", "/", "g", "x", "Esc", "Enter"}

\* config.keybindings[Mode::Home]: the key sequences bound to an action.
Keymap ==
    (<<"q">> :> Act("Quit")) @@ (<<"z">> :> Act("Suspend"))
      @@ (<<"j">> :> Act("ScheduleIncrement"))
      @@ (<<"k">> :> Act("ScheduleDecrement"))
      @@ (<<"/">> :> Act("EnterInsert"))
      @@ (<<"g", "x">> :> Act("Refresh"))

\* tui::Event as App::run matches it: the key is "-" unless it is a Key.
AppEv(t, key) == [t |-> t, key |-> key]

AppEvents ==
    {AppEv(t, "-") : t \in {"Quit", "Tick", "Render", "Resize", "Mouse"}}
      \cup {AppEv("Key", k) : k \in KeyCodes}

\* usize, of UsizeBits bits.
UsizeMax == 2 ^ UsizeBits - 1

SaturatingAddWraps(a, b) == (a + b) % (UsizeMax + 1)

\* usize::saturating_add
SaturatingAdd(a, b) == IF a + b > UsizeMax THEN UsizeMax ELSE a + b

\* usize::saturating_sub
SaturatingSub(a, b) == IF b > a THEN 0 ELSE a - b

\* Home::default(), with the fields the actions read or write (the input
\* line and the text shown are strings no Action depends on).
NewHome ==
    [show_help |-> FALSE, counter |-> 0, app_ticker |-> 0,
     render_ticker |-> 0, mode |-> "Normal", last_events |-> <<>>]

\* components::fps::FpsCounter::new()
NewFpsCounter ==
    [app_frames |-> 0, app_fps |-> "0.0", render_frames |-> 0,
     render_fps |-> "0.0"]

\* A task schedule_increment or schedule_decrement spawns: what it sends
\* after its sleep, where it is, and how many of its actions App::run has
\* handled.
NoSched == [op |-> "-", i |-> 0, pc |-> "idle", handled |-> 0]

SchedTask(op, i) == [op |-> op, i |-> i, pc |-> "spawned", handled |-> 0]

\* The tasks whose place a newly spawned one can take.
FreeSlots(sc) ==
    {n \in DOMAIN sc : \/ sc[n].pc = "idle"
                       \/ sc[n].pc = "done" /\ sc[n].handled = 3}

\* tokio::spawn in schedule_increment / schedule_decrement
Spawn(sc, op, i) ==
    LET n == CHOOSE m \in FreeSlots(sc) : \A l \in FreeSlots(sc) : m <= l
    IN  [sc EXCEPT ![n] = SchedTask(op, i)]

\* Home::handle_key_events: the key is remembered, and in Insert mode it
\* is answered by actions (the first is sent by Home itself).
HomeKeyActions(h, key) ==
    IF h.mode # "Insert" THEN <<>>
    ELSE IF key = "Esc" THEN <<Act("EnterNormal")>>
    ELSE IF key = "Enter" THEN <<Act("CompleteInput"), Act("EnterNormal")>>
    ELSE <<Act("Update")>>

HomeHandleEvents(h, e) ==
    IF e.t = "Key"
      THEN [h EXCEPT !.last_events = Append(@, e.key)]
      ELSE h

\* Home::update, but for the tasks it spawns
HomeUpdate(h, a) ==
    CASE a.t = "Tick" ->
           [h EXCEPT !.app_ticker = SaturatingAdd(@, 1),
                     !.last_events = <<>>]
      [] a.t = "Render" ->
           [h EXCEPT !.render_ticker = SaturatingAdd(@, 1)]
      [] a.t = "ToggleShowHelp" -> [h EXCEPT !.show_help = ~@]
      [] a.t = "Increment" -> [h EXCEPT !.counter = SaturatingAdd(@, a.i)]
      [] a.t = "Decrement" -> [h EXCEPT !.counter = SaturatingSub(@, a.i)]
      [] a.t = "EnterNormal" -> [h EXCEPT !.mode = "Normal"]
      [] a.t = "EnterInsert" -> [h EXCEPT !.mode = "Insert"]
      [] a.t = "EnterProcessing" -> [h EXCEPT !.mode = "Processing"]
      [] a.t = "ExitProcessing" -> [h EXCEPT !.mode = "Normal"]
      [] OTHER -> h

\* Home::update: schedule_increment(1), schedule_decrement(1)
HomeSpawns(sc, a) ==
    CASE a.t = "ScheduleIncrement" -> Spawn(sc, "Increment", 1)
      [] a.t = "ScheduleDecrement" -> Spawn(sc, "Decrement", 1)
      [] OTHER -> sc

\* components::fps::FpsCounter::update: app_tick() on Action::Tick,
\* render_tick() on Action::Render; `lapsed` as in fps_counter::update.
FpsComponentUpdate(f, a, lapsed) ==
    CASE a.t = "Tick" ->
           IF lapsed
             THEN [f EXCEPT !.app_fps = "app_frames / elapsed",
                            !.app_frames = 0]
             ELSE [f EXCEPT !.app_frames = @ + 1]
      [] a.t = "Render" ->
           IF lapsed
             THEN [f EXCEPT !.render_fps = "render_frames / elapsed",
                            !.render_frames = 0]
             ELSE [f EXCEPT !.render_frames = @ + 1]
      [] OTHER -> f

\* App::new() and the start of App::run, up to the loop.
NewApp ==
    [pc |-> "next", queue |-> <<>>, should_quit |-> FALSE,
     should_suspend |-> FALSE, last_tick_key_events |-> <<>>,
     tui |-> <<"new", "enter">>, res |-> "-", asked |-> FALSE]

InitApp ==
    /\ app = NewApp
    /\ comps = [home |-> NewHome, fps |-> NewFpsCounter]
    /\ sched = [n \in 1..MaxOps |-> NoSched]

KeyPushedAlways(keys, key) == Append(keys, key)

\* tui::Event::Key in App::run: last_tick_key_events afterwards.
KeyPushed(keys, key) ==
    IF <<key>> \in DOMAIN Keymap THEN keys ELSE Append(keys, key)

\* tui::Event::Key in App::run: the actions sent.
KeyActions(keys, key) ==
    IF <<key>> \in DOMAIN Keymap THEN <<Keymap[<<key>>]>>
    ELSE IF Append(keys, key) \in DOMAIN Keymap
      THEN <<Keymap[Append(keys, key)]>>
      ELSE <<>>

\* The match on the event in App::run: the actions sent.
EventActions(keys, e) ==
    CASE e.t \in {"Quit", "Tick", "Render", "Resize"} -> <<Act(e.t)>>
      [] e.t = "Key" -> KeyActions(keys, e.key)
      [] OTHER -> <<>>

\* `if let Some(e) = tui.next().await { .. }`: the event is matched, then
\* handed to the components (FpsCounter leaves it alone).
AppNext(e) ==
    /\ app.pc = "next"
    /\ LET sent == EventActions(app.last_tick_key_events, e)
                     \o (IF e.t = "Key"
                           THEN HomeKeyActions(comps.home, e.key)
                           ELSE <<>>)
       IN  /\ Len(app.queue) + Len(sent) <= MaxQueue
           /\ e.t = "Key" => Len(comps.home.last_events) < MaxKeys
           /\ app' = [app EXCEPT
                        !.pc = "recv",
                        !.queue = @ \o sent,
                        !.last_tick_key_events =
                          IF e.t = "Key" THEN KeyPushed(@, e.key) ELSE @]
    /\ comps' = [comps EXCEPT !.home = HomeHandleEvents(@, e)]
    /\ UNCHANGED <<sched, variant, term, mouse, paste, task, old, chan, rx,
                   takes, takeRet, handedOut, pc, counter, call, ops, pre,
                   prevFail, epc, elapsed, lastItem, sources, clock, model>>

\* Action::Tick in App::run: `self.last_tick_key_events.drain(..)`
TickDrains(keys) == <<>>

ResumeKeepsFlag(flag) == flag

\* Action::Resume in App::run: `self.should_suspend = false`
ResumeClears(flag) == FALSE

\* The match on the action in App::run; a draw that fails ends run.
AppMatch(ap, a, fails) ==
    CASE a.t = "Tick" ->
           [ap EXCEPT !.last_tick_key_events = TickDrains(@)]
      [] a.t = "Quit" -> [ap EXCEPT !.should_quit = TRUE]
      [] a.t = "Suspend" ->
           [ap EXCEPT !.should_suspend = TRUE, !.asked = TRUE]
      [] a.t = "Resume" ->
           [ap EXCEPT !.should_suspend = ResumeClears(@)]
      [] a.t \in {"Resize", "Render"} /\ fails ->
           [ap EXCEPT !.pc = "returned", !.res = "err", !.tui = <<"draw">>]
      [] OTHER -> ap

\* `while let Ok(action) = action_rx.try_recv() { .. }`, one turn: the
\* action is matched, then the components update on it.
AppRecv(fails, lapsed) ==
    /\ app.pc = "recv"
    /\ IF app.queue = <<>>
         THEN /\ ~fails /\ ~lapsed
              /\ app' = [app EXCEPT !.pc = "check"]
              /\ UNCHANGED <<comps, sched>>
         ELSE LET a == Head(app.queue)
                  ap == AppMatch([app EXCEPT !.queue = Tail(@)], a, fails)
              IN  /\ fails => a.t \in {"Resize", "Render"}
                  /\ lapsed => a.t \in {"Tick", "Render"}
                  /\ ~lapsed /\ a.t = "Tick"
                       => comps.fps.app_frames < MaxFrames
                  /\ ~lapsed /\ a.t = "Render"
                       => comps.fps.render_frames < MaxFrames
                  /\ a.t \in {"ScheduleIncrement", "ScheduleDecrement"}
                       => FreeSlots(sched) # {}
                  /\ app' = ap
                  /\ IF ap.pc = "returned"
                       THEN UNCHANGED <<comps, sched>>
                       ELSE /\ comps' =
                                 [home |-> HomeUpdate(comps.home, a),
                                  fps |-> FpsComponentUpdate(comps.fps, a,
                                                             lapsed)]
                            /\ sched' =
                                 IF a.by # 0
                                   THEN [sched EXCEPT
                                           ![a.by].handled = @ + 1]
                                   ELSE HomeSpawns(sched, a)
    /\ UNCHANGED <<variant, term, mouse, paste, task, old, chan, rx, takes,
                   takeRet, handedOut, pc, counter, call, ops, pre,
                   prevFail, epc, elapsed, lastItem, sources, clock, model>>

\* `if self.should_suspend { .. } else if self.should_quit { .. }`
Branch(ap) ==
    IF ap.should_suspend THEN "suspend"
    ELSE IF ap.should_quit THEN "quit" ELSE "continue"

\* The calls on the Tui of the suspending branch, and of the quitting
\* branch with the exit() after the loop.
SuspendCalls == <<"suspend", "new", "enter">>

QuitCalls == <<"stop", "exit">>

\* The end of one turn of the loop in App::run. failAt is the call that
\* returns an error, counted from 1 (0: none does); run returns the error.
AppCheck(failAt) ==
    /\ app.pc = "check"
    /\ LET suspends == Branch(app) = "suspend"
           quits == Branch(app) = "quit"
           calls == IF suspends THEN SuspendCalls
                    ELSE IF quits THEN QuitCalls ELSE <<>>
       IN  /\ failAt <= Len(calls)
           /\ suspends /\ failAt # 1 => Len(app.queue) < MaxQueue
           /\ app' =
                [app EXCEPT
                   !.tui = IF failAt = 0 THEN calls
                           ELSE SubSeq(calls, 1, failAt),
                   !.queue = IF suspends /\ failAt # 1
                               THEN Append(@, Act("Resume")) ELSE @,
                   !.asked = IF suspends THEN FALSE ELSE @,
                   !.res = IF failAt # 0 THEN "err"
                           ELSE IF quits THEN "ok" ELSE @,
                   !.pc = IF failAt # 0 \/ quits THEN "returned"
                          ELSE "next"]
    /\ UNCHANGED <<comps, sched, variant, term, mouse, paste, task, old,
                   chan, rx, takes, takeRet, handedOut, pc, counter, call,
                   ops, pre, prevFail, epc, elapsed, lastItem, sources,
                   clock, model>>

\* `tx.send(..).unwrap()` in a scheduled task: run has returned and
\* dropped the receiver, or the action is queued.
SchedSend(n, a, then) ==
    IF app.pc = "returned"
      THEN /\ sched' = [sched EXCEPT ![n].pc = "panicked"]
           /\ UNCHANGED app
      ELSE /\ Len(app.queue) < MaxQueue
           /\ app' = [app EXCEPT !.queue = Append(@, a)]
           /\ sched' = [sched EXCEPT ![n].pc = then]

\* A step of the task schedule_increment / schedule_decrement spawned:
\* EnterProcessing, the sleep, Increment(i) or Decrement(i),
\* ExitProcessing.
SchedStep(n) ==
    /\ \/ /\ sched[n].pc = "spawned"
          /\ SchedSend(n, ActOf("EnterProcessing", 0, n), "sleeping")
       \/ /\ sched[n].pc = "sleeping"
          /\ SchedSend(n, ActOf(sched[n].op, sched[n].i, n), "woken")
       \/ /\ sched[n].pc = "woken"
          /\ SchedSend(n, ActOf("ExitProcessing", 0, n), "done")
    /\ UNCHANGED <<comps, variant, term, mouse, paste, task, old, chan, rx,
                   takes, takeRet, handedOut, pc, counter, call, ops, pre,
                   prevFail, epc, elapsed, lastItem, sources, clock, model>>

\* Home::update applied to an action, as App::run applies it.
HomeApply(a) ==
    /\ comps' = [comps EXCEPT !.home = HomeUpdate(@, a)]
    /\ UNCHANGED <<app, sched, variant, term, mouse, paste, task, old, chan,
                   rx, takes, takeRet, handedOut, pc, counter, call, ops,
                   pre, prevFail, epc, elapsed, lastItem, sources, clock,
                   model>>

InitSession ==
    /\ variant \in {"tui", "event"}
    /\ mouse \in BOOLEAN
    /\ paste \in BOOLEAN
    /\ (variant = "event" => ~mouse /\ ~paste)
    /\ term = TermOff
    /\ task = EmptyTask
    /\ old = NoOld
    /\ chan = <<>>
    /\ rx = IF variant = "tui" THEN "tui" ELSE "consumer"
    /\ takes = 0
    /\ takeRet = "-"
    /\ handedOut = 0
    /\ pc = "idle"
    /\ counter = 0
    /\ call = NoCall
    /\ ops = <<>>
    /\ pre = TermOff
    /\ prevFail = <<>>
    /\ epc = "poll"
    /\ elapsed = 0
    /\ lastItem = NoItem
    /\ sources = NoSources

\* The state after construction; time is not tracked.
Init ==
    /\ InitSession
    /\ clock = ClockOff
    /\ model = DefaultModel
    /\ InitApp

\* ------------------------------------------------- Tui: lifecycle calls
\* A lifecycle call is made: the history of calls moves on.
Called(name, res) ==
    /\ call' = [name |-> name, res |-> res]
    /\ pre' = term
    /\ prevFail' = IF call.name \in {"enter", "resume"} /\ call.res = "err"
                     THEN <<pre>> ELSE <<>>

\* enter(): the terminal commands, each of which may fail, then start().
EnterBody(name, failAt) ==
    LET cmds == EnterCmds(mouse, paste) IN
    /\ variant = "tui"
    /\ pc = "idle"
    /\ failAt \in 0..Len(cmds)
    /\ failAt = 0 => OldCount(Detach(old, task)) <= MaxOld
    /\ term' = RunCmds(cmds, term, failAt)
    /\ ops' = Attempted(cmds, failAt)
    /\ Called(name, IF failAt = 0 THEN "ok" ELSE "err")
    /\ IF failAt = 0
         THEN /\ task' = PollerTask
              /\ old' = Detach(old, CancelCur(task))
              /\ chan' = Disown(chan)
              /\ sources' = Restart(sources)
         ELSE UNCHANGED <<task, old, chan, sources>>
    /\ UNCHANGED <<appVars, variant, clock, model, mouse, paste, rx, takes, takeRet,
                   handedOut, pc, counter, epc, elapsed, lastItem>>

Enter(failAt) == EnterBody("enter", failAt)

\* A resume() that switches the terminal modes on and starts no Poller.
ResumeModesOnly(failAt) ==
    LET cmds == EnterCmds(mouse, paste) IN
    /\ call.name = "suspend"
    /\ variant = "tui"
    /\ pc = "idle"
    /\ failAt \in 0..Len(cmds)
    /\ term' = RunCmds(cmds, term, failAt)
    /\ ops' = Attempted(cmds, failAt)
    /\ Called("resume", IF failAt = 0 THEN "ok" ELSE "err")
    /\ UNCHANGED <<appVars, variant, sources, clock, model, mouse, paste, task, old,
                   chan, rx, takes, takeRet, handedOut, pc, counter, epc,
                   elapsed, lastItem>>

\* resume(): enter() again, called after a suspend() that returned.
Resume(failAt) ==
    /\ call.name = "suspend"
    /\ EnterBody("resume", failAt)

\* stop(), first line: cancel(); then the wait loop starts with counter = 0.
\* exit() and suspend() begin with stop(), and so does drop(), which calls
\* exit(); drop() also runs when a panic unwinds the owner of the session.
StopBegin(name) ==
    /\ variant = "tui"
    /\ name \in {"stop", "exit", "suspend", "drop"}
    /\ pc = "idle" \/ (pc = "unwinding" /\ name = "drop")
    /\ task' = CancelCur(task)
    /\ pc' = "stopping"
    /\ counter' = 0
    /\ ops' = <<>>
    /\ Called(name, "running")
    /\ UNCHANGED <<appVars, variant, sources, clock, model, term, mouse, paste, old,
                   chan, rx, takes, takeRet, handedOut, epc, elapsed,
                   lastItem>>

\* stop() without the give-up test.
GiveUpNever(c) == FALSE

\* stop() that aborts the task at its first completion poll.
AbortAtOnce(c) == TRUE

\* stop(): the abort and give-up tests on the counter after a sleep.
AbortDue(c) == c > AbortThreshold
GiveUp(c) == c > GiveUpThreshold

\* stop(): one evaluation of `while !self.task.is_finished()` and, when the
\* task is not finished, one run of the loop body.
StopLoop ==
    /\ pc = "stopping"
    /\ IF ~Running(task)
         THEN /\ pc' = "stopped"
              /\ UNCHANGED <<task, counter>>
         ELSE /\ counter' = counter + 1
              /\ task' = IF AbortDue(counter + 1)
                           THEN [task EXCEPT !.st = "aborting"]
                           ELSE task
              /\ pc' = IF GiveUp(counter + 1) THEN "stopped" ELSE "stopping"
    /\ UNCHANGED <<appVars, variant, sources, clock, model, term, mouse, paste, old,
                   chan, rx, takes, takeRet, handedOut, call, ops, pre,
                   prevFail, epc, elapsed, lastItem>>

\* A stop() that reports a task it could not stop as an error.
StopResultStrict(t) == IF Running(t) THEN "err" ELSE "ok"

\* stop(): `Ok(())` after the loop, whatever became of the task.
StopResult(t) == "ok"

\* `self.stop()?` in exit(): the commands that follow are run when stop()
\* returned Ok.
AfterStop(t, cmds) == IF StopResult(t) = "ok" THEN cmds ELSE <<>>

\* stop() called on its own returns Ok(()).
StopReturn ==
    /\ pc = "stopped"
    /\ call.name = "stop"
    /\ pc' = "idle"
    /\ counter' = 0
    /\ call' = [call EXCEPT !.res = StopResult(task)]
    /\ UNCHANGED <<appVars, variant, sources, clock, model, term, mouse, paste, task,
                   old, chan, rx, takes, takeRet, handedOut, ops, pre,
                   prevFail, epc, elapsed, lastItem>>

\* exit() after `self.stop()?`: the restoring commands when raw mode is on.
ExitRestore(failAt) ==
    LET cmds == AfterStop(task, ExitOps(term, mouse, paste)) IN
    /\ pc = "stopped"
    /\ call.name = "exit"
    /\ failAt \in 0..Len(cmds)
    /\ term' = RunCmds(cmds, term, failAt)
    /\ ops' = Attempted(cmds, failAt)
    /\ pc' = "idle"
    /\ counter' = 0
    /\ call' = [call EXCEPT
                   !.res = IF StopResult(task) = "ok" /\ failAt = 0
                             THEN "ok" ELSE "err"]
    /\ UNCHANGED <<appVars, variant, sources, clock, model, mouse, paste, task, old,
                   chan, rx, takes, takeRet, handedOut, pre, prevFail, epc,
                   elapsed, lastItem>>

\* A suspend() that raises the signal whatever exit() returned.
RaiseAlways(failAt) == TRUE

\* suspend(): `self.exit()?` returns early when exit() failed, so raise() is
\* reached only after an exit() that returned Ok.
RaiseReached(failAt) == failAt = 0

\* suspend(): `self.exit()?`, then raise(SIGTSTP), which stops the process
\* or fails.
SuspendRestore(failAt, raised) ==
    LET cmds == AfterStop(task, ExitOps(term, mouse, paste)) IN
    /\ pc = "stopped"
    /\ call.name = "suspend"
    /\ failAt \in 0..Len(cmds)
    /\ raised \in BOOLEAN
    /\ raised => (StopResult(task) = "ok" /\ RaiseReached(failAt))
    /\ term' = RunCmds(cmds, term, failAt)
    /\ ops' = Attempted(cmds, failAt)
    /\ counter' = 0
    /\ IF raised
         THEN /\ pc' = "suspended"
              /\ UNCHANGED call
         ELSE /\ pc' = "idle"
              /\ call' = [call EXCEPT !.res = "err"]
    /\ UNCHANGED <<appVars, variant, sources, clock, model, mouse, paste, task, old,
                   chan, rx, takes, takeRet, handedOut, pre, prevFail, epc,
                   elapsed, lastItem>>

\* The stopped process is continued (SIGCONT): raise() returns, suspend()
\* returns Ok(()).
Continue ==
    /\ pc = "suspended"
    /\ pc' = "idle"
    /\ call' = [call EXCEPT !.res = "ok"]
    /\ UNCHANGED <<appVars, variant, sources, clock, model, term, mouse, paste, task,
                   old, chan, rx, takes, takeRet, handedOut, counter, ops,
                   pre, prevFail, epc, elapsed, lastItem>>

\* Drop for Tui, after stop(): `self.exit().unwrap()`, a failure of which
\* is a panic.  The session is gone afterwards.
DropRestore(failAt) ==
    LET cmds == AfterStop(task, ExitOps(term, mouse, paste)) IN
    /\ pc = "stopped"
    /\ call.name = "drop"
    /\ failAt \in 0..Len(cmds)
    /\ term' = RunCmds(cmds, term, failAt)
    /\ ops' = Attempted(cmds, failAt)
    /\ pc' = "dropped"
    /\ counter' = 0
    /\ call' = [call EXCEPT
                   !.res = IF StopResult(task) = "ok" /\ failAt = 0
                             THEN "ok" ELSE "panic"]
    /\ UNCHANGED <<appVars, variant, sources, clock, model, mouse, paste, task, old,
                   chan, rx, takes, takeRet, handedOut, pre, prevFail, epc,
                   elapsed, lastItem>>

\* The panic hook, run by a panic of the session's owner: Tui::new() makes
\* a second Tui (mouse = false, paste = false, a task and a token of its
\* own), whose exit() restores the terminal; its error is logged.  The
\* second Tui is dropped at the end of the `if let`, which runs exit() again
\* and unwraps: a failure there is a panic inside the hook, which aborts
\* the process.  The stop() of these exit() calls waits for the second Tui's
\* own task only, and returns Ok(()) whether or not that task finishes.
PanicHook(newOk, failAt, failAt2) ==
    LET c1 == IF newOk THEN ExitOps(term, FALSE, FALSE) ELSE <<>>
        t1 == RunCmds(c1, term, failAt)
        c2 == IF newOk THEN ExitOps(t1, FALSE, FALSE) ELSE <<>>
    IN
    /\ variant = "tui"
    /\ pc = "idle"
    /\ newOk \in BOOLEAN
    /\ failAt \in 0..Len(c1)
    /\ failAt2 \in 0..Len(c2)
    /\ term' = RunCmds(c2, t1, failAt2)
    /\ ops' = Attempted(c1, failAt) \o Attempted(c2, failAt2)
    /\ Called("panic", CASE ~newOk -> "nonew"
                         [] failAt2 # 0 -> "abort"
                         [] failAt # 0 -> "err"
                         [] OTHER -> "ok")
    /\ pc' = IF failAt2 # 0 THEN "aborted" ELSE "unwinding"
    /\ UNCHANGED <<appVars, variant, sources, clock, model, mouse, paste, task, old,
                   chan, rx, takes, takeRet, handedOut, counter, epc, elapsed,
                   lastItem>>

\* cancel(), called by the owner of the session.
Cancel ==
    /\ variant = "tui"
    /\ pc = "idle"
    /\ task' = CancelCur(task)
    /\ UNCHANGED <<appVars, variant, sources, clock, model, term, mouse, paste, old,
                   chan, rx, takes, takeRet, handedOut, pc, counter, call,
                   ops, pre, prevFail, epc, elapsed, lastItem>>

\* take_event_rx() that leaves the consumer end in the session.
RxKept(r) == r

\* take_event_rx(): self.event_rx.take().
RxAfterTake(r) == IF r = "tui" THEN "consumer" ELSE r
TakeResult(r) == IF r = "tui" THEN "Some" ELSE "None"

TakeEventRx ==
    /\ variant = "tui"
    /\ pc = "idle"
    /\ takes < MaxTakes
    /\ takes' = takes + 1
    /\ takeRet' = TakeResult(rx)
    /\ handedOut' = handedOut + (IF TakeResult(rx) = "Some" THEN 1 ELSE 0)
    /\ rx' = RxAfterTake(rx)
    /\ UNCHANGED <<appVars, variant, sources, clock, model, term, mouse, paste, task,
                   old, chan, pc, counter, call, ops, pre, prevFail, epc,
                   elapsed, lastItem>>

\* ------------------------------------------------ Tui: the spawned tasks
\* The tasks run on the runtime's worker threads unless the process is
\* stopped.  w names the task that steps: "cur" (Tui.task) or "old".
Scheduled(w) ==
    /\ variant = "tui"
    /\ pc # "suspended"
    /\ w \in {"cur", "old"}

mainVars == <<term, mouse, paste, takes, takeRet, handedOut, pc, counter,
              call, ops, pre, prevFail>>

\* Task w goes from state `from` to state `to`.
Move(w, from, to) ==
    IF w = "cur"
      THEN /\ task.st = from
           /\ task' = [task EXCEPT !.st = to]
           /\ UNCHANGED old
      ELSE /\ old[from] > 0
           /\ old' = IF to \in OldStates
                       THEN [old EXCEPT ![from] = @ - 1, ![to] = @ + 1]
                       ELSE [old EXCEPT ![from] = @ - 1]
           /\ UNCHANGED task

IsPoller(w) == w = "old" \/ task.kind = "poller"
TokenCancelled(w) == w = "old" \/ task.cancelled

\* event_tx.send(e).unwrap() by task w, which goes on to state `to`: the send
\* fails, and unwrap() panics, when the consumer end has been dropped.
Send(w, evs, from, to) ==
    IF evs = <<>>
      THEN /\ Move(w, from, to)
           /\ UNCHANGED chan
      ELSE IF rx = "dropped"
        THEN /\ Move(w, from, "panicked")
             /\ UNCHANGED chan
        ELSE /\ CanSend(evs)
             /\ chan' = chan \o evs
             /\ Move(w, from, to)

\* abort() took effect: the task is dropped at its await point.
TaskAborted(w) ==
    /\ Scheduled(w)
    /\ Move(w, "aborting", "finished")
    /\ UNCHANGED <<appVars, variant, sources, clock, model, chan, rx, epc, elapsed,
                   lastItem>>
    /\ UNCHANGED mainVars

\* The task of Tui::new(), `async {}`, runs and completes.
EmptyTaskRun ==
    /\ Scheduled("cur")
    /\ task.kind = "empty"
    /\ Move("cur", "spawned", "finished")
    /\ UNCHANGED <<appVars, variant, sources, clock, model, chan, rx, epc, elapsed,
                   lastItem>>
    /\ UNCHANGED mainVars

\* The Poller's first poll: reader and intervals created, Init sent, and the
\* task waits in select!.
PollerInit(w) ==
    /\ Scheduled(w)
    /\ IsPoller(w)
    /\ Send(w, <<Ev("Init", "-", w)>>, "spawned", "loop")
    /\ clock' = Started(w, clock)
    /\ UNCHANGED <<appVars, variant, sources, model, rx, epc, elapsed, lastItem>>
    /\ UNCHANGED mainVars

\* A Poller that disables raw mode itself when it is cancelled.
PollerCancelledRestores(w) ==
    /\ Scheduled(w)
    /\ IsPoller(w)
    /\ TokenCancelled(w)
    /\ Move(w, "loop", "finished")
    /\ term' = [term EXCEPT !.raw = FALSE]
    /\ UNCHANGED <<appVars, variant, sources, clock, model, chan, rx, epc, elapsed,
                   lastItem>>
    /\ UNCHANGED <<mouse, paste, takes, takeRet, handedOut, pc, counter,
                   call, ops, pre, prevFail>>

\* select!, branch `task_cancellation_token.cancelled()`: break.
PollerCancelled(w) ==
    /\ Scheduled(w)
    /\ IsPoller(w)
    /\ TokenCancelled(w)
    /\ Move(w, "loop", "finished")
    /\ UNCHANGED <<appVars, variant, sources, clock, model, chan, rx, epc, elapsed,
                   lastItem>>
    /\ UNCHANGED mainVars

\* select!, branch `crossterm_event`: the input stream yields an item.
\* select! polls its branches in random order, so this branch, like the two
\* timer branches, may win while the token is cancelled.
PollerInput(w, item) ==
    /\ Scheduled(w)
    /\ IsPoller(w)
    /\ item \in Inputs
    /\ MayPick("input", w, sources)
    /\ Send(w, TuiTranslate(item, w), "loop", "loop")
    /\ lastItem' = item
    /\ \E more \in BOOLEAN : sources' = Serve("input", w, more, sources)
    /\ clock' = Read(w, TuiTranslate(item, w), clock)
    /\ UNCHANGED <<appVars, variant, model, rx, epc, elapsed>>
    /\ UNCHANGED mainVars

\* select!, branch `tick_delay`: the tick interval has fired.
PollerTick(w) ==
    /\ Scheduled(w)
    /\ IsPoller(w)
    /\ MayPick("tick", w, sources)
    /\ Due("tick", w, clock)
    /\ Send(w, <<Ev("Tick", "-", w)>>, "loop", "loop")
    /\ sources' = Serve("tick", w, FALSE, sources)
    /\ clock' = Fired("tick", w, clock)
    /\ UNCHANGED <<appVars, variant, model, rx, epc, elapsed, lastItem>>
    /\ UNCHANGED mainVars

\* select!, branch `render_delay`: the render interval has fired.
PollerRender(w) ==
    /\ Scheduled(w)
    /\ IsPoller(w)
    /\ MayPick("render", w, sources)
    /\ Due("render", w, clock)
    /\ Send(w, <<Ev("Render", "-", w)>>, "loop", "loop")
    /\ sources' = Serve("render", w, FALSE, sources)
    /\ clock' = Fired("render", w, clock)
    /\ UNCHANGED <<appVars, variant, model, rx, epc, elapsed, lastItem>>
    /\ UNCHANGED mainVars

\* A source of the session's Poller becomes ready while the Poller is in
\* its loop: an input item arrives, or the deadline of an interval passes.
SourceReady(s) ==
    /\ variant = "tui"
    /\ task.kind = "poller"
    /\ task.st = "loop"
    /\ s \in Sources
    /\ s \notin sources.due
    /\ sources' = [due |-> sources.due \cup {s},
                    last |-> IF sources.last = s THEN "-" ELSE sources.last]
    /\ UNCHANGED <<appVars, variant, clock, model, task, old, chan, rx, epc, elapsed,
                   lastItem>>
    /\ UNCHANGED mainVars

\* ------------------------------------------------------- the consumer
\* The owner of the consumer end receives the next event.
Recv ==
    /\ rx = "consumer"
    /\ pc # "suspended"
    /\ chan # <<>>
    /\ chan' = Tail(chan)
    /\ UNCHANGED <<appVars, variant, sources, clock, model, task, old, rx, epc,
                   elapsed, lastItem>>
    /\ UNCHANGED mainVars

\* The owner of the consumer end drops it, and the queued events with it.
DropRx ==
    /\ variant = "tui"
    /\ rx = "consumer"
    /\ pc # "suspended"
    /\ rx' = "dropped"
    /\ chan' = <<>>
    /\ UNCHANGED <<appVars, variant, sources, clock, model, task, old, epc, elapsed,
                   lastItem>>
    /\ UNCHANGED mainVars

\* --------------------------------------------- event.rs: event_poller
\* `tick_rate.checked_sub(last_tick.elapsed()).unwrap_or(tick_rate)`
Timeout(e) == IF e <= TickRate THEN TickRate - e ELSE TickRate

\* event::poll(timeout) returns true after d time units with an item to
\* read, whose translation is sent.
EventPollerRead(item, d) ==
    /\ variant = "event"
    /\ epc = "poll"
    /\ item \in Inputs \ {i \in Inputs : i.t \in {"Err", "None"}}
    /\ d \in 0..Timeout(elapsed)
    /\ CanSend(EventPollerTranslate(item, "cur"))
    /\ chan' = chan \o EventPollerTranslate(item, "cur")
    /\ elapsed' = elapsed + d
    /\ epc' = "tick"
    /\ lastItem' = item
    /\ UNCHANGED <<appVars, variant, sources, clock, model, task, old, rx>>
    /\ UNCHANGED mainVars

\* event::poll(timeout) returns false: the timeout has passed.
EventPollerTimeout(late) ==
    /\ variant = "event"
    /\ epc = "poll"
    /\ late \in 0..Jitter
    /\ elapsed' = elapsed + Timeout(elapsed) + late
    /\ epc' = "tick"
    /\ UNCHANGED <<appVars, variant, sources, clock, model, task, old, chan, rx,
                   lastItem>>
    /\ UNCHANGED mainVars

\* An event_poller that sends Tick after every poll.
TickDueAlways(e) == TRUE

\* `last_tick.elapsed() >= tick_rate`
TickDue(e) == e >= TickRate

\* `if last_tick.elapsed() >= tick_rate`: Tick is sent and last_tick reset.
EventPollerTick ==
    /\ variant = "event"
    /\ epc = "tick"
    /\ IF TickDue(elapsed)
         THEN /\ CanSend(<<Ev("Tick", "-", "cur")>>)
              /\ chan' = Append(chan, Ev("Tick", "-", "cur"))
              /\ elapsed' = 0
         ELSE UNCHANGED <<chan, elapsed>>
    /\ epc' = "poll"
    /\ UNCHANGED <<appVars, variant, sources, clock, model, task, old, rx, lastItem>>
    /\ UNCHANGED mainVars

\* ------------------------------------------------------- time passing
\* One unit of time passes while the session's Poller waits in select!.  An
\* interval that is due is served before it is more than MaxLag late.
TimePasses ==
    /\ clock.on
    /\ variant = "tui"
    /\ task.kind = "poller"
    /\ task.st = "loop"
    /\ clock.now < Horizon
    /\ clock.win < 0 => clock.now < MaxOpen
    /\ \A s \in {"tick", "render"} : clock.now + 1 - clock.due[s] <= MaxLag
    /\ clock' = [clock EXCEPT !.now = @ + 1]
    /\ UNCHANGED <<appVars, variant, sources, model, task, old, chan, rx, epc, elapsed,
                   lastItem>>
    /\ UNCHANGED mainVars

\* The window that is observed opens now.
WindowOpens ==
    /\ clock.on
    /\ task.kind = "poller"
    /\ task.st = "loop"
    /\ clock.win < 0
    /\ clock' = [clock EXCEPT !.win = clock.now, !.base = clock.n.tick]
    /\ UNCHANGED <<appVars, variant, sources, model, task, old, chan, rx, epc, elapsed,
                   lastItem>>
    /\ UNCHANGED mainVars

\* ------------------------------------------------- model.rs: update()
\* update(&mut model, msg) is called; `lapsed` says whether fps_counter finds
\* that a second has passed.
ModelUpdate(msg, lapsed) ==
    /\ msg \in Messages
    /\ lapsed => msg.t \in {"FpsRender", "FpsTick"}
    /\ msg.t \in {"Increment", "Decrement"}
          => model.counter \in (0 - MaxCounter)..MaxCounter
    /\ msg.t = "FpsRender" /\ ~lapsed
          => model.fps_counter.app_frames < MaxFrames
    /\ msg.t = "FpsTick" /\ ~lapsed
          => model.fps_counter.render_frames < MaxFrames
    /\ model' = Update(model, msg, lapsed)
    /\ UNCHANGED <<appVars, variant, sources, clock, task, old, chan, rx, epc, elapsed,
                   lastItem>>
    /\ UNCHANGED mainVars

\* ----------------------------------------------------- specifications
\* The session of src/src/tui.rs, with any configuration.
InitTui == Init /\ variant = "tui"

\* The session as Tui::new() configures it: mouse = false, paste = false.
InitDefault == InitTui /\ ~mouse /\ ~paste

\* The steps a task takes when no abort() is pending.
TaskRuns ==
    \/ EmptyTaskRun
    \/ \E w \in {"cur", "old"} :
          \/ PollerInit(w)
          \/ PollerCancelled(w)

\* The steps of the spawned tasks that the lifecycle calls wait for.
TaskSteps ==
    \/ TaskRuns
    \/ \E w \in {"cur", "old"} : TaskAborted(w)

\* enter() and exit() with failing terminal commands.
NextLife ==
    \/ \E f \in 0..5 : Enter(f)
    \/ StopBegin("exit")
    \/ StopLoop
    \/ \E f \in 0..6 : ExitRestore(f)
    \/ TaskSteps

SpecLife == InitTui /\ [][NextLife]_vars

\* Every call of the session on a terminal whose commands succeed, with the
\* tasks it waits for and the consumer.
NextStop ==
    \/ Enter(0)
    \/ Resume(0)
    \/ \E n \in {"stop", "exit", "suspend"} : StopBegin(n)
    \/ StopLoop
    \/ StopReturn
    \/ ExitRestore(0)
    \/ \E r \in BOOLEAN : SuspendRestore(0, r)
    \/ Continue
    \/ Cancel
    \/ TakeEventRx
    \/ TaskSteps
    \/ \E w \in {"cur", "old"} : PollerTick(w)
    \/ Recv
    \/ DropRx

SpecStop == InitDefault /\ [][NextStop]_vars

\* The pollers of both variants, with start() and cancel() and the consumer.
NextPoll ==
    \/ Enter(0)
    \/ Cancel
    \/ TakeEventRx
    \/ TaskRuns
    \/ \E w \in {"cur", "old"}, item \in Inputs : PollerInput(w, item)
    \/ \E w \in {"cur", "old"} : PollerTick(w)
    \/ \E w \in {"cur", "old"} : PollerRender(w)
    \/ Recv
    \/ DropRx
    \/ \E item \in Inputs, d \in 0..TickRate : EventPollerRead(item, d)
    \/ \E late \in 0..Jitter : EventPollerTimeout(late)
    \/ EventPollerTick

InitPoll == Init /\ ~mouse /\ ~paste

\* The ways a session ends: quit, drop, panic, after any calls before them.
\* The session's own terminal commands succeed; those of the panic hook may
\* fail.
NextEnd ==
    \/ Enter(0)
    \/ Resume(0)
    \/ \E n \in {"stop", "exit", "suspend", "drop"} : StopBegin(n)
    \/ StopLoop
    \/ StopReturn
    \/ ExitRestore(0)
    \/ \E r \in BOOLEAN : SuspendRestore(0, r)
    \/ Continue
    \/ \E n \in BOOLEAN, f \in 0..4, g \in 0..4 : PanicHook(n, f, g)
    \/ DropRestore(0)
    \/ TaskSteps

SpecEnd == InitTui /\ [][NextEnd]_vars

\* The items the input stream yields there: one that is sent on, one that
\* is not.
FairInputs == {InputKinds[1], InputKinds[4]}

\* A session that is entered once, then suspended and resumed any number of
\* times, with failing terminal commands in suspend().
NextSuspend ==
    \/ call.name = "new" /\ Enter(0)
    \/ Resume(0)
    \/ StopBegin("suspend")
    \/ StopLoop
    \/ \E f \in 0..6, r \in BOOLEAN : SuspendRestore(f, r)
    \/ Continue
    \/ TaskSteps

SpecSuspend == InitTui /\ [][NextSuspend]_vars

\* The Poller of a session that is entered once, with its sources becoming
\* ready, and the consumer, which takes its end of the Channel once.
NextFair ==
    \/ call.name = "new" /\ Enter(0)
    \/ Cancel
    \/ takes = 0 /\ TakeEventRx
    \/ TaskRuns
    \/ \E s \in Sources : SourceReady(s)
    \/ \E item \in FairInputs : PollerInput("cur", item)
    \/ PollerTick("cur")
    \/ PollerRender("cur")
    \/ Recv

\* select! picks among its ready branches at random, so a branch that is
\* ready again and again is picked in the end; the consumer keeps receiving.
SpecFair ==
    /\ InitDefault
    /\ [][NextFair]_vars
    /\ SF_vars(\E item \in FairInputs : PollerInput("cur", item))
    /\ SF_vars(PollerTick("cur"))
    /\ SF_vars(PollerRender("cur"))
    /\ WF_vars(Recv)

SpecPoll == InitPoll /\ [][NextPoll]_vars

\* The Poller of a session that is entered once, with time: its intervals
\* with the rates of Tui::new(), input items arriving at any time, and the
\* consumer.
InitTime ==
    /\ InitSession
    /\ variant = "tui" /\ ~mouse /\ ~paste
    /\ clock = ClockOn
    /\ model = DefaultModel
    /\ InitApp

NextTime ==
    \/ call.name = "new" /\ Enter(0)
    \/ Cancel
    \/ takes = 0 /\ TakeEventRx
    \/ TaskRuns
    \/ \E item \in FairInputs : PollerInput("cur", item)
    \/ PollerTick("cur")
    \/ PollerRender("cur")
    \/ Recv
    \/ TimePasses
    \/ WindowOpens

SpecTime == InitTime /\ [][NextTime]_vars

\* model::update applied, any number of times, to a model whose counter
\* is set.
InitModel ==
    /\ InitSession
    /\ variant = "tui" /\ ~mouse /\ ~paste
    /\ clock = ClockOff
    /\ model \in Models
    /\ InitApp

NextModel ==
    \/ \E msg \in Messages : ModelUpdate(msg, FALSE)
    \/ \E t \in {"FpsRender", "FpsTick"} : ModelUpdate(Msg(t), TRUE)

SpecModel == InitModel /\ [][NextModel]_vars

\* model::update driven as its tests drive it: the message it returns is
\* processed before the next message from outside, on a model that starts
\* as Model::default().
NextLoop ==
    \/ model.ret = None /\ \E msg \in Messages : ModelUpdate(msg, FALSE)
    \/ model.ret # None
         /\ \E lapsed \in BOOLEAN : ModelUpdate(model.ret, lapsed)

SpecLoop == InitDefault /\ [][NextLoop]_vars

\* App::run (src/src/app.rs) from the start of its loop: the events the
\* Tui offers, the actions handled one at a time, the end of each turn.
\* The keys are two bound to an action by themselves (q, z) and the two
\* of the two-key binding (g, x).
AppInputs ==
    {AppEv(t, "-") : t \in {"Quit", "Tick", "Render", "Mouse"}}
      \cup {AppEv("Key", k) : k \in {"q", "z", "g", "x"}}

NextApp ==
    \/ \E e \in AppInputs : AppNext(e)
    \/ \E fails, lapsed \in BOOLEAN : AppRecv(fails, lapsed)
    \/ \E failAt \in 0..3 : AppCheck(failAt)

SpecApp == InitDefault /\ [][NextApp]_vars

\* App::run with Home's scheduled operations: the keys are those bound to
\* ScheduleIncrement (j) and ScheduleDecrement (k), and the spawned tasks
\* run beside the loop.
NextHome ==
    \/ \E k \in {"j", "k"} : AppNext(AppEv("Key", k))
    \/ AppNext(AppEv("Tick", "-"))
    \/ \E lapsed \in BOOLEAN : AppRecv(FALSE, lapsed)
    \/ AppCheck(0)
    \/ \E n \in 1..MaxOps : SchedStep(n)

SpecHome == InitDefault /\ [][NextHome]_vars

\* Home::update on sequences of Increment(i), Decrement(i), Tick and Render
\* actions, as App::run hands them to it: up to two actions are queued,
\* carrying 1 or the largest usize, and the counter and the tickers start
\* anywhere below the largest usize.
CounterActions ==
    {ActOf(t, i, 0) : t \in {"Increment", "Decrement"}, i \in {1, UsizeMax}}
      \cup {Act("Tick"), Act("Render")}

InitCounter ==
    /\ InitSession
    /\ variant = "tui" /\ ~mouse /\ ~paste
    /\ clock = ClockOff
    /\ model = DefaultModel
    /\ \E q \in CounterActions \cup (CounterActions \X CounterActions) :
         app = [NewApp EXCEPT !.pc = "recv",
                              !.queue = IF q \in CounterActions
                                          THEN <<q>> ELSE q]
    /\ \E c \in 0..(UsizeMax - 1), a, r \in {0, UsizeMax - 1} :
         comps = [home |-> [NewHome EXCEPT !.counter = c, !.app_ticker = a,
                                           !.render_ticker = r],
                  fps |-> NewFpsCounter]
    /\ sched = [n \in 1..MaxOps |-> NoSched]

NextCounter == \E lapsed \in BOOLEAN : AppRecv(FALSE, lapsed)

SpecCounter == InitCounter /\ [][NextCounter]_vars

\* ================================================================ claims
Returned(name, res) == pc = "idle" /\ call.name = name /\ call.res = res

\* C1 (as stated): after every sequence of enter() and exit() calls the
\* terminal mode flags equal their values before the first enter().
C1_FlagsRestoredAfterAnySequence ==
    (pc = "idle" /\ call.name \in {"enter", "exit"}) => term = TermOff

\* C1 (amended): after every sequence of enter() and exit() calls that ends
\* with an exit() that returned success, the terminal mode flags equal their
\* values before the first enter().
C1_FlagsRestoredAfterExit ==
    Returned("exit", "ok") => term = TermOff

C1_Witness ==
    /\ Returned("exit", "ok")
    /\ pre.raw /\ pre.alt /\ pre.mouseCap /\ pre.pasteCap
    /\ task.kind = "poller" /\ task.st = "finished"

\* C2: after enter() returned success raw mode and the alternate screen are
\* on; after exit() returned success both are off.
C2_ModeFlagsAfterReturn ==
    /\ Returned("enter", "ok") => term.raw /\ term.alt
    /\ Returned("exit", "ok") => ~term.raw /\ ~term.alt

C2_Witness ==
    /\ Returned("exit", "ok")
    /\ pre.raw /\ pre.alt
    /\ ops # <<>>

\* C3: exit() on a session that is already exited (raw mode off) performs no
\* terminal command and returns success.
C3_ExitIdempotent ==
    (pc = "idle" /\ call.name = "exit" /\ ~pre.raw)
        => (ops = <<>> /\ term = pre /\ call.res = "ok")

C3_Witness ==
    /\ Returned("exit", "ok")
    /\ ~pre.raw
    /\ task.kind = "poller"
    /\ ~Running(task)

\* C4: when a terminal command inside enter() fails, enter() returns an error
\* and the terminal mode flags are as they were before the call.
C4_FailedEnterLeavesFlags ==
    Returned("enter", "err") => term = pre

\* C5 (as stated): after an enter() that failed, a following exit() that
\* succeeds leaves every terminal mode flag at its value from before the
\* failed enter().
C5_ExitRestoresBeforeFailedEnter ==
    (Returned("exit", "ok") /\ prevFail # <<>>) => term = prevFail[1]

\* C5 (amended): after an enter() that failed, a following exit() that
\* succeeds leaves every terminal mode flag off, which is its value from
\* before the failed enter() when that enter() was called with raw mode off.
C5_ExitRestoresAfterFailedEnter ==
    (Returned("exit", "ok") /\ prevFail # <<>>)
        => /\ term = TermOff
           /\ ~prevFail[1].raw => term = prevFail[1]

C5_Witness ==
    /\ Returned("exit", "ok")
    /\ prevFail # <<>>
    /\ ~prevFail[1].raw
    /\ pre.raw /\ ~pre.alt

\* C6: at most one Poller task of a session is running at any time.
C6_AtMostOnePoller == PollersRunning <= 1

\* C7: a Poller in its select! loop whose token has been cancelled sends no
\* further event on the Channel.
C7_NoSendAfterCancel ==
    [][\A w \in {"cur", "old"} :
          (TokenCancelled(w) /\ (w = "cur" => task.st = "loop"))
              => ~(/\ Len(chan') = Len(chan) + 1
                   /\ chan'[Len(chan')].src = w
                   /\ chan'[Len(chan')].t # "Init")]_vars

\* C8: stop() returns after at most GiveUpThreshold + 1 sleeps, whether or
\* not the task finishes: its loop can always take its next step, and the
\* counter it increments on every sleep never passes the bound.
C8_StopBounded ==
    /\ counter <= GiveUpThreshold + 1
    /\ pc = "stopping" => (counter <= GiveUpThreshold /\ ENABLED StopLoop)

C8_Witness ==
    /\ pc = "stopped"
    /\ counter = GiveUpThreshold + 1
    /\ Running(task)
    /\ task.kind = "poller"

\* C9: every Key event on the Channel has kind press, for the Poller task and
\* for event_poller.
C9_OnlyKeyPress ==
    \A k \in 1..Len(chan) : chan[k].t = "Key" => chan[k].kind = "Press"

C9_Witness ==
    /\ variant = "tui"
    /\ lastItem.t = "Key" /\ lastItem.kind = "Release"
    /\ chan # <<>> /\ chan[Len(chan)].t = "Key"

\* C10: take_event_rx() returns the consumer end on the first call of a
\* session and None on every later call.
C10_TakeOnce ==
    /\ handedOut <= 1
    /\ takes = 1 => takeRet = "Some"
    /\ takes >= 2 => takeRet = "None"

C10_Witness ==
    /\ takes >= 2
    /\ takeRet = "None"
    /\ Returned("resume", "ok")

\* C11: when a panic occurs while the session is entered, raw mode is off
\* and the alternate screen has been left once the panic hook is done.
C11_HookRestores ==
    (call.name = "panic" /\ pre.raw /\ pre.alt) => (~term.raw /\ ~term.alt)

\* C12: however a session ends (its Tui dropped after a quit or an error,
\* or after a panic whose hook and unwinding succeeded), every terminal mode
\* flag is off.
C12_EndsRestored ==
    (pc = "dropped" /\ call.res = "ok") => term = TermOff

\* C13: an exit() that reports a failure has still attempted to disable raw
\* mode.
C13_ExitBestEffort ==
    (Returned("exit", "err") /\ pre.raw)
        => (ops # <<>> /\ ops[Len(ops)] = "disableRaw")

\* -------------------------------------------- steps seen on the Channel
\* This step appended one event to the Channel.
Appended ==
    /\ Len(chan') = Len(chan) + 1
    /\ SubSeq(chan', 1, Len(chan)) = chan

\* The event this step appended.
NewEvent == chan'[Len(chan')]

\* This step is the first poll of a Poller: it went from spawned to its loop.
FirstPollCur ==
    /\ task.kind = "poller"
    /\ task.st = "spawned"
    /\ task' = [task EXCEPT !.st = "loop"]

FirstPollOld ==
    /\ old["spawned"] > 0
    /\ old' = [old EXCEPT !["spawned"] = @ - 1, !["loop"] = @ + 1]

\* This step is an iteration of a Poller's loop after which the loop goes
\* on: only the Channel and the item read last can have changed.
LoopContinues ==
    /\ variant = "tui"
    /\ Len(chan') >= Len(chan)
    /\ UNCHANGED <<appVars, variant, term, mouse, paste, task, old, rx, takes, takeRet,
                   handedOut, pc, counter, call, ops, pre, prevFail, epc,
                   elapsed>>

\* This step read the input item `kind` (seen when it differs from the item
\* read before).
ReadItem(kind) ==
    /\ variant = "tui"
    /\ lastItem' # lastItem
    /\ lastItem'.t = kind

\* C14: a Poller sends Init at its first poll, when it enters its loop, and
\* at no other time: every run that reaches its loop has sent Init exactly
\* once, before every other event of the run.
C14_InitOnceFirst ==
    [][variant = "tui" =>
         /\ FirstPollCur => (Appended /\ NewEvent = Ev("Init", "-", "cur"))
         /\ FirstPollOld => (Appended /\ NewEvent = Ev("Init", "-", "old"))
         /\ (Appended /\ NewEvent.t = "Init")
               => \/ NewEvent.src = "cur" /\ FirstPollCur
                  \/ NewEvent.src = "old" /\ FirstPollOld]_vars

C14_Witness ==
    /\ variant = "tui"
    /\ task.kind = "poller" /\ task.st = "loop"
    /\ old["loop"] > 0
    /\ chan = <<Ev("Render", "-", "cur")>>

C16_ClosedOnNone ==
    [][(ReadItem("None") /\ rx # "dropped")
          => (Appended /\ NewEvent.t = "Closed")]_vars

\* C17: when reading an input item fails, the Poller sends one Error event
\* and stays in its loop (the consumer end not having been dropped).
C17_ErrorOnReadFailure ==
    [][(ReadItem("Err") /\ rx # "dropped")
          => /\ Appended
             /\ NewEvent.t = "Error"
             /\ UNCHANGED <<task, old>>]_vars

C17_Witness ==
    /\ variant = "tui"
    /\ task.kind = "poller" /\ task.st = "loop" /\ ~task.cancelled
    /\ old = NoOld
    /\ lastItem.t = "Err"
    /\ chan = <<Ev("Tick", "-", "cur")>>

\* The two queues hold the same events in the same order.
SameEvents(q1, q2) ==
    /\ Len(q1) = Len(q2)
    /\ \A k \in 1..Len(q1) : q1[k].t = q2[k].t /\ q1[k].kind = q2[k].kind

TaskStep ==
    /\ variant = "tui"
    /\ call' = call /\ pc' = pc /\ counter' = counter
    /\ task' # task \/ old' # old \/ Appended \/ lastItem' # lastItem

Servicing ==
    /\ task.kind = "poller"
    /\ task.st = "loop"
    /\ ~task.cancelled
    /\ rx = "consumer"

\* C19: while the Poller is in its loop and not cancelled, a source that is
\* due is served in the end: a due tick yields a Tick, a due render a
\* Render, and a pending input item is read.
C19_ReadyServed ==
    \A s \in Sources :
        (Servicing /\ s \in sources.due /\ sources.last # s)
            ~> (~Servicing \/ sources.last = s)

C19_Witness ==
    /\ Servicing
    /\ sources.due = {"input", "render"}
    /\ sources.last = "tick"

\* C21: the process is stopped by suspend() only after its exit() has run
\* all its commands and returned Ok; suspend() returns Ok only from the
\* stopped state, when the process is continued; and nothing of the process
\* runs while it is stopped.
C21_SuspendOrder ==
    [][/\ pc' = "suspended" /\ pc # "suspended"
           => /\ pc = "stopped"
              /\ call.name = "suspend"
              /\ ops' = ExitOps(term, mouse, paste)
              /\ term' = RunCmds(ops', term, 0)
              /\ ~term'.raw
       /\ (call'.name = "suspend" /\ call'.res = "ok" /\ call # call')
           => (pc = "suspended" /\ pc' = "idle")
       /\ pc = "suspended" => UNCHANGED <<term, task, old, chan>>]_vars

C21_Witness ==
    /\ Returned("suspend", "ok")
    /\ pre.raw /\ pre.mouseCap
    /\ term = TermOff
    /\ Len(ops) = 5

\* The terminal after the commands of enter() on a terminal in its original
\* mode.
EnteredTerm == RunCmds(EnterCmds(mouse, paste), TermOff, 0)

\* C22: a resume() that returned Ok leaves what a first enter() that
\* returned Ok leaves: raw mode, the alternate screen and the configured
\* captures on, the session's task a new Poller with a token that is not
\* cancelled and that has yet to send its Init, and no other Poller that
\* can send (one that stop() aborted and gave up waiting for may be
\* unfinished).
C22_ResumeAsEnter ==
    [][(/\ call' # call
        /\ call'.name \in {"enter", "resume"}
        /\ call'.res = "ok")
          => /\ term' = EnteredTerm
             /\ task' = PollerTask
             /\ old'["spawned"] = 0 /\ old'["loop"] = 0
             /\ pc' = "idle"]_vars

C22_Witness ==
    /\ Returned("resume", "ok")
    /\ mouse /\ term.mouseCap
    /\ old["aborting"] > 0
    /\ chan # <<>>

\* The session's Poller is in its loop and its token is not cancelled.
RunningUncancelled ==
    /\ clock.on
    /\ task.kind = "poller"
    /\ task.st = "loop"
    /\ ~task.cancelled

\* C23: with the rates of Tui::new(), 60 frames and 4 ticks a second, a
\* Poller that has run for one second without an input item and without
\* being cancelled has sent one Init, 55 to 65 Render events, 3 to 5 Tick
\* events and no event made from input.
C23_OneSecondRun ==
    (RunningUncancelled /\ clock.now = Second /\ ~clock.items)
        => /\ clock.n.init = 1
           /\ clock.n.render \in 55..65
           /\ clock.n.tick \in 3..5
           /\ clock.n.input = 0

C23_Witness ==
    /\ RunningUncancelled /\ clock.now = Second /\ ~clock.items
    /\ clock.n.render = 60
    /\ clock.n.tick = 4
    /\ chan # <<>> /\ chan[1].t = "Render"

\* C24: at the end of a window of two seconds in which the Poller ran and
\* was not cancelled, at least 7 Tick events were sent in the window,
\* whatever input items were read and whatever Render events were sent.
C24_TicksInWindow ==
    (RunningUncancelled /\ clock.win >= 0 /\ clock.now >= clock.win + 2 * Second)
        => clock.n.tick - clock.base >= 7

C24_Witness ==
    /\ RunningUncancelled
    /\ clock.win > 0
    /\ clock.now = clock.win + 2 * Second
    /\ clock.items /\ clock.n.input = 1
    /\ clock.n.tick - clock.base = 7

\* update() was applied to a message of type t.
Updated(t) == model' # model /\ model'.msg.t = t

C27_ResetAtTheEnds ==
    [][/\ (Updated("Increment") /\ model.counter = 50)
            => (model'.counter = 51 /\ model'.ret = Msg("Reset"))
       /\ (Updated("Decrement") /\ model.counter = 0 - 50)
            => (model'.counter = 0 - 51 /\ model'.ret = Msg("Reset"))
       /\ (Updated("Reset") /\ model.ret = Msg("Reset"))
            => (model'.counter = 0 /\ model'.ret = None)]_vars

C27_Witness ==
    /\ model.msg.t = "Increment"
    /\ model.counter = 51
    /\ model.ret = Msg("Reset")
    /\ ENABLED (ModelUpdate(Msg("Reset"), FALSE) /\ model'.counter = 0)

\* C25: stop() returns Ok whether the task finished, was aborted or was
\* still unfinished when the wait was given up; exit() then runs its
\* restoring commands and returns Ok; and neither cancelling the token nor
\* the Poller's ending on it nor the abort puts an event on the Channel:
\* no Error event comes of it.
C25_StopNeverFails ==
    [][/\ (pc = "stopped" /\ pc' = "idle" /\ call.name = "stop")
            => call'.res = "ok"
       /\ (pc = "stopped" /\ pc' = "idle" /\ call.name = "exit")
            => /\ ops' = ExitOps(term, mouse, paste)
               /\ term' = RunCmds(ops', term, 0)
               /\ call'.res = "ok"
       /\ (\/ task'.cancelled /\ ~task.cancelled
           \/ Running(task) /\ ~Running(task')
           \/ task'.st = "aborting" /\ task.st # "aborting")
            => chan' = chan
       /\ \A k \in 1..Len(chan') : chan'[k].t # "Error"]_vars

C25_Witness ==
    /\ Returned("exit", "ok")
    /\ Running(task)
    /\ pre.raw /\ ~term.raw
    /\ chan # <<>>

\* The place of a command in the order of exit() as C28 states it.
ExitRank(cmd) ==
    CASE cmd = "flush"        -> 1
      [] cmd = "disablePaste" -> 2
      [] cmd = "disableMouse" -> 3
      [] cmd = "leaveAlt"     -> 4
      [] cmd = "showCursor"   -> 5
      [] cmd = "disableRaw"   -> 6
      [] OTHER                -> 0

\* exit() ends: the step after its stop() has returned.
ExitEnds == pc = "stopped" /\ pc' = "idle" /\ call.name = "exit"

\* C28: exit() stops the Poller first, and no terminal mode changes and no
\* command runs until stop() has returned; then, only if raw mode is on, it
\* runs, in this order: flush, disable paste capture if configured, disable
\* mouse capture if configured, leave the alternate screen, show the
\* cursor, disable raw mode; a command that fails ends the sequence.
C28_ExitOrder ==
    [][/\ (call'.name = "exit" /\ pc' = "stopping")
            => (term' = term /\ ops' = <<>>)
       /\ ExitEnds
            => /\ ~term.raw => (ops' = <<>> /\ term' = term)
               /\ \A i \in 1..Len(ops') :
                     /\ ExitRank(ops'[i]) > 0
                     /\ i > 1 => ExitRank(ops'[i - 1]) < ExitRank(ops'[i])
                     /\ ops'[i] = "disablePaste" => paste
                     /\ ops'[i] = "disableMouse" => mouse
               /\ (term.raw /\ call'.res = "ok")
                     => /\ Len(ops') = 4 + (IF paste THEN 1 ELSE 0)
                                         + (IF mouse THEN 1 ELSE 0)
                        /\ ops'[Len(ops')] = "disableRaw"
               /\ (term.raw /\ call'.res = "err")
                     => /\ ops' # <<>>
                        /\ ops'[1] = "flush"
                        /\ paste /\ Len(ops') > 1 => ops'[2] = "disablePaste"]_vars

C28_Witness ==
    /\ Returned("exit", "ok")
    /\ mouse /\ paste
    /\ pre.raw /\ pre.mouseCap /\ pre.pasteCap
    /\ ops = <<"flush", "disablePaste", "disableMouse", "leaveAlt",
               "showCursor", "disableRaw">>
    /\ term = TermOff

\* C29: stop() cancels the token first, without aborting; it requests the
\* abort only in its loop, when more than 50 completion polls have found
\* the task unfinished, so a task that finishes within the first 50 polls
\* is never aborted; and it leaves its loop with the task unfinished only
\* when more than 100 polls have passed.
C29_TwoThresholds ==
    [][/\ (pc # "stopping" /\ pc' = "stopping")
            => /\ task'.cancelled
               /\ task'.st = task.st
               /\ counter' = 0
       /\ (task'.st = "aborting" /\ task.st # "aborting")
            => /\ pc = "stopping"
               /\ task.cancelled
               /\ Running(task)
               /\ counter' = counter + 1
               /\ counter' > 50
       /\ (pc = "stopping" /\ pc' = "stopped" /\ Running(task))
            => (counter' > 100 /\ task'.st = "aborting")
       /\ (pc = "stopping" /\ counter' = counter + 1 /\ counter' > 50)
            => task'.st = "aborting"]_vars

C29_Witness ==
    /\ pc = "stopping"
    /\ call.name = "stop"
    /\ counter = 51
    /\ task.kind = "poller"
    /\ task.st = "aborting"

\* Command cmd is among the commands q.
Has(q, cmd) == \E i \in 1..Len(q) : q[i] = cmd

\* enter() or resume() returns Ok in this step.
EnterEnds ==
    /\ call' # call
    /\ call'.name \in {"enter", "resume"}
    /\ call'.res = "ok"

\* exit(), or the exit() of suspend(), has run its last command in this
\* step, on a terminal in raw mode.
ExitDone ==
    /\ pc = "stopped"
    /\ call.name \in {"exit", "suspend"}
    /\ pc' \in {"idle", "suspended"}
    /\ term.raw
    /\ ~term'.raw

\* C30: enter() enables mouse capture exactly when the mouse option is set
\* and paste capture exactly when the paste option is set; exit() disables
\* exactly the captures whose option is set; no call changes an option; and
\* with both options unset no call runs a capture command and both captures
\* stay as they were.
C30_CapturesFollowOptions ==
    [][/\ EnterEnds
            => /\ Has(ops', "enableMouse") <=> mouse
               /\ Has(ops', "enablePaste") <=> paste
               /\ term'.mouseCap = (mouse \/ term.mouseCap)
               /\ term'.pasteCap = (paste \/ term.pasteCap)
       /\ ExitDone
            => /\ Has(ops', "disableMouse") <=> mouse
               /\ Has(ops', "disablePaste") <=> paste
               /\ term'.mouseCap = (term.mouseCap /\ ~mouse)
               /\ term'.pasteCap = (term.pasteCap /\ ~paste)
       /\ (Has(ops', "enableMouse") \/ Has(ops', "disableMouse")) => mouse
       /\ (Has(ops', "enablePaste") \/ Has(ops', "disablePaste")) => paste
       /\ mouse' = mouse /\ paste' = paste
       /\ (~mouse /\ ~paste)
            => (term'.mouseCap = term.mouseCap
                /\ term'.pasteCap = term.pasteCap)]_vars

C30_Witness ==
    /\ Returned("exit", "ok")
    /\ mouse /\ ~paste
    /\ pre.mouseCap /\ ~term.mouseCap
    /\ Has(ops, "disableMouse") /\ ~Has(ops, "disablePaste")

\* start() has run in this step, inside an enter() or a resume() that
\* returned Ok: a call was made, or the task was replaced.
Starts ==
    /\ call'.name \in {"enter", "resume"}
    /\ call'.res = "ok"
    /\ \/ call' # call
       \/ OldCount(old') > OldCount(old)
       \/ task'.st = "spawned" /\ task.st # "spawned"

\* C31: the Poller that start() spawns has a token that is not cancelled,
\* whatever was cancelled before; until it is cancelled by a later call, it
\* neither takes the cancelled branch nor is aborted; once a later cancel()
\* (or stop()) has cancelled it, it stays cancelled and the cancelled branch
\* of its select! is ready.
C31_FreshToken ==
    [][/\ Starts
            => /\ task'.kind = "poller"
               /\ task'.st = "spawned"
               /\ ~task'.cancelled
               /\ OldCount(old') = OldCount(Detach(old, task))
       /\ (~Starts /\ task.kind = "poller" /\ ~task.cancelled)
            => /\ task'.st \in {"finished", "aborting"} => task'.st = task.st
               /\ task'.cancelled => (call' # call \/ (pc = "idle" /\ task.st = task'.st))
       /\ (~Starts /\ task.cancelled) => task'.cancelled
       /\ (task.kind = "poller" /\ task.cancelled /\ task.st = "loop"
            /\ pc # "suspended")
            => ENABLED PollerCancelled("cur")]_vars

C31_Witness ==
    /\ Returned("enter", "ok")
    /\ task.kind = "poller" /\ task.st = "finished" /\ task.cancelled
    /\ old["loop"] > 0
    /\ chan # <<>> /\ chan[1].src = "cur"

\* C32 (as stated): the session's Poller ends only because its token was
\* cancelled or because stop() aborted it.
C32_EndsOnlyOnCancelOrAbort ==
    [][(/\ ~Starts
        /\ task.kind = "poller"
        /\ Running(task)
        /\ ~Running(task'))
          => (task.cancelled \/ task.st = "aborting")]_vars

\* C33: when every message update() returns is processed before the next
\* message from outside, the counter never leaves -51..=51, and it is in
\* -50..=50 whenever no Reset is waiting to be processed.
C33_CounterBand ==
    /\ model.counter \in (0 - 51)..51
    /\ model.ret # Msg("Reset") => model.counter \in (0 - 50)..50

C33_Witness ==
    /\ model.counter = 0 - 51
    /\ model.msg.t = "Decrement"
    /\ model.ret = Msg("Reset")
    /\ model.running_state = "ShouldQuit"

\* C34: event_poller sends on key presses, mouse and resize items and
\* nothing for any other item it reads; it sends Tick, and resets its tick
\* timer, at every check that finds tick_rate or more elapsed since the
\* last Tick and at no other time, so two Ticks are at least tick_rate
\* apart; and whatever input arrives, the time since the last Tick never
\* passes tick_rate by more than one oversleep.
C34_EventPoller ==
    [][variant = "event"
         => /\ (epc = "poll" /\ Appended)
                 => /\ NewEvent.t \in {"Key", "Mouse", "Resize"}
                    /\ NewEvent.t = "Key" => NewEvent.kind = "Press"
                    /\ NewEvent.t = lastItem'.t
            /\ (epc = "poll" /\ lastItem' # lastItem
                 /\ ~(\/ lastItem'.t \in {"Mouse", "Resize"}
                      \/ lastItem'.t = "Key" /\ lastItem'.kind = "Press"))
                 => chan' = chan
            /\ (epc = "tick" /\ Appended)
                 => /\ NewEvent.t = "Tick"
                    /\ elapsed >= TickRate
                    /\ elapsed' = 0
            /\ (epc = "tick" /\ epc' = "poll" /\ elapsed >= TickRate)
                 => (Appended /\ NewEvent.t = "Tick")
            /\ elapsed' <= TickRate + Jitter]_vars

C34_Witness ==
    /\ variant = "event"
    /\ lastItem.t = "Resize"
    /\ epc = "poll"
    /\ elapsed = 0
    /\ chan = <<Ev("Tick", "-", "cur")>>

\* The keys among `keys` that no binding of the keymap binds by themselves.
Unbound(keys) == SelectSeq(keys, LAMBDA k : <<k>> \notin DOMAIN Keymap)

HasResume(q) == \E n \in 1..Len(q) : q[n].t = "Resume"

FpsShown(f) ==
    [fps |-> <<f.render_frames, f.render_fps>>,
     tps |-> <<f.app_frames, f.app_fps>>]

\* C37 (as stated): fps_counter::update with Render changes only what is
\* shown as fps and with Tick only what is shown as tps, and it does to
\* the counts what components::fps::FpsCounter::update does to them on
\* Action::Render and Action::Tick.
C37_SameCounts ==
    [][/\ Updated("FpsRender")
            => /\ FpsShown(model'.fps_counter).tps
                    = FpsShown(model.fps_counter).tps
               /\ \E lapsed \in BOOLEAN :
                    model'.fps_counter
                      = FpsComponentUpdate(model.fps_counter, Act("Render"),
                                           lapsed)
       /\ Updated("FpsTick")
            => /\ FpsShown(model'.fps_counter).fps
                    = FpsShown(model.fps_counter).fps
               /\ \E lapsed \in BOOLEAN :
                    model'.fps_counter
                      = FpsComponentUpdate(model.fps_counter, Act("Tick"),
                                           lapsed)]_vars

\* The actions the scheduled task n sends, in the order of its code.
OpActions(n) ==
    <<ActOf("EnterProcessing", 0, n), ActOf(sched[n].op, sched[n].i, n),
      ActOf("ExitProcessing", 0, n)>>

\* How many of them it has sent.
SentBy(n) ==
    CASE sched[n].pc = "sleeping" -> 1
      [] sched[n].pc = "woken" -> 2
      [] sched[n].pc = "done" -> 3
      [] OTHER -> 0

\* Each scheduled task's actions are handled and queued in the order
\* EnterProcessing, Increment(i) / Decrement(i), ExitProcessing.
SentInOrder ==
    \A n \in 1..MaxOps :
        sched[n].pc \notin {"idle", "panicked"}
          => SelectSeq(app.queue, LAMBDA a : a.by = n)
               = SubSeq(OpActions(n), sched[n].handled + 1, SentBy(n))

\* C38 (as stated): each scheduled operation's actions go out in the order
\* EnterProcessing, Increment(i) / Decrement(i), ExitProcessing, and
\* Home.mode is Processing whenever some scheduled operation has had its
\* EnterProcessing handled and its ExitProcessing not yet.
C38_ProcessingWhileScheduled ==
    /\ SentInOrder
    /\ (\E n \in 1..MaxOps : sched[n].handled \in {1, 2})
         => comps.home.mode = "Processing"

\* App::run hands an action of type t to the components.
Handles(t) ==
    /\ app.pc = "recv"
    /\ app.queue # <<>>
    /\ Head(app.queue).t = t
    /\ app'.queue = Tail(app.queue)

\* C39: Home's counter and tickers stay within 0..=usize::MAX; Increment(i)
\* adds i, or leaves the counter at the maximum when the sum would exceed
\* it; Decrement(i) subtracts i, or leaves the counter at 0 when i is
\* greater than it; Tick and Render add one to their ticker up to the
\* maximum, and no counter ever moves the other way round.
C39_Saturates ==
    [][LET h == comps.home
           g == comps'.home
           i == Head(app.queue).i
       IN  /\ {g.counter, g.app_ticker, g.render_ticker} \subseteq 0..UsizeMax
           /\ Handles("Increment")
                => /\ g.counter >= h.counter
                   /\ h.counter + i <= UsizeMax => g.counter = h.counter + i
                   /\ h.counter + i > UsizeMax => g.counter = UsizeMax
           /\ Handles("Decrement")
                => /\ g.counter <= h.counter
                   /\ i > h.counter => g.counter = 0
                   /\ i <= h.counter => g.counter = h.counter - i
           /\ Handles("Tick")
                => /\ g.app_ticker >= h.app_ticker
                   /\ h.app_ticker < UsizeMax
                        => g.app_ticker = h.app_ticker + 1
           /\ Handles("Render")
                => /\ g.render_ticker >= h.render_ticker
                   /\ h.render_ticker < UsizeMax
                        => g.render_ticker = h.render_ticker + 1]_vars

C39_Witness ==
    /\ app.pc = "recv"
    /\ app.queue = <<ActOf("Decrement", UsizeMax, 0)>>
    /\ comps.home.counter = UsizeMax
    /\ comps.home.app_ticker = UsizeMax - 1
    /\ comps.home.render_ticker = 0

====
